---- MODULE Spec2Model ----
(***************************************************************************)
(* Model of src/bookvalue.py: the background search loop (Worker) and the  *)
(* operator-facing shell (EbaySearcher) that starts and cancels it.        *)
(*                                                                         *)
(* Strings are sequences of one-character strings, so that Python's        *)
(* truthiness ("" is falsy), f"{title} {author}" and str.strip() are       *)
(* computed rather than assumed.                                           *)
(***************************************************************************)
EXTENDS Naturals, Sequences, FiniteSets

VARIABLES
    file,       \* rows of the spreadsheet the operator selects (Title, Author, ISBN; NaN -> "")
    data,       \* EbaySearcher.data
    workers,    \* every Worker started so far; EbaySearcher.worker is the last one (None if empty)
    queue,      \* update_result signals queued for the main thread, in emission order
    table       \* EbaySearcher.result_table rows

vars == <<file, data, workers, queue, table>>

----------------------------------------------------------------------------
(* Bounds of the exploration *)

MaxRows == 2        \* longest spreadsheet a single run is explored on
MaxShellRows == 1   \* longest spreadsheet explored with several workers
MaxWorkers == 2     \* number of workers Search may start

(* Program constants *)

NumMetrics == 4     \* avg price, price range, avg shipping, total sellers

----------------------------------------------------------------------------
(* Strings *)

Empty == << >>
SPACE == " "

Truthy(s) == s /= Empty

RECURSIVE LStrip(_)
LStrip(s) == IF s /= Empty /\ Head(s) = SPACE THEN LStrip(Tail(s)) ELSE s

RECURSIVE RStrip(_)
RStrip(s) ==
    IF s /= Empty /\ s[Len(s)] = SPACE THEN RStrip(SubSeq(s, 1, Len(s) - 1)) ELSE s

\* str.strip()
Strip(s) == RStrip(LStrip(s))

\* f"{title} {author}"
TitleAuthor(title, author) == title \o <<SPACE>> \o author

----------------------------------------------------------------------------
(* Inputs: spreadsheet rows and result pages *)

Row(t, a, i) == [title |-> t, author |-> a, isbn |-> i]

Rows ==
    { Row(Empty, Empty, Empty),
      Row(<<"T">>, <<"A">>, Empty),
      Row(<<"T">>, <<"A">>, <<"9">>),
      Row(Empty, Empty, <<"9">>) }

RECURSIVE SeqsUpTo(_, _)
SeqsUpTo(S, n) ==
    IF n = 0 THEN { << >> }
    ELSE LET shorter == SeqsUpTo(S, n - 1)
         IN  shorter \cup { Append(s, x) : s \in shorter, x \in S }

Files == SeqsUpTo(Rows, MaxRows) \ { << >> }
ShellFiles == SeqsUpTo(Rows, MaxShellRows) \ { << >> }

Metrics == 1..NumMetrics

\* A metric of a page is either absent (its 1 s wait times out) or a visible
\* element with some text: << >> or <<text>>.
ABSENT == << >>
Visible(text) == <<text>>

Page(c, m) == [container |-> c, metric |-> m]

Pages ==
    { Page(FALSE, [k \in Metrics |-> ABSENT]),                      \* div.aggregates never appears
      Page(TRUE,  [k \in Metrics |-> ABSENT]),                      \* container, no metric
      Page(TRUE,  [k \in Metrics |-> IF k = 1 THEN Visible(<<SPACE>>) ELSE ABSENT]),
      Page(TRUE,  [k \in Metrics |-> IF k = 1 THEN Visible(<<SPACE, "$", SPACE>>) ELSE ABSENT]),
      Page(TRUE,  [k \in Metrics |-> Visible(<<"$">>)]) }

----------------------------------------------------------------------------
(* Worker.get_aggregate_value and Worker.perform_search as functions of the
   page the browser shows *)

\* the text returned for metric k: "" after a timeout, else element.text.strip()
GetAggregateValue(page, k) ==
    IF page.metric[k] = ABSENT THEN Empty ELSE Strip(page.metric[k][1])

\* variant: all() in place of any()
AnyValue_All(values) == \A k \in Metrics : Truthy(values[k])

\* any([avg_price, price_range, avg_shipping, total_sellers])
AnyValue(values) == \E k \in Metrics : Truthy(values[k])

\* What perform_search does once driver.get(url) has returned: ok is its return
\* value, emitted the update_result payloads it emits (none or one).
PerformSearch(page, title, author, isbn) ==
    LET values == [k \in Metrics |-> GetAggregateValue(page, k)]
    IN  IF ~page.container
        THEN [ok |-> FALSE, emitted |-> << >>]                      \* TimeoutException
        ELSE IF ~AnyValue(values)
        THEN [ok |-> FALSE, emitted |-> << >>]
        ELSE [ok |-> TRUE,
              emitted |-> << <<title, author, isbn,
                               values[1], values[2], values[3], values[4]>> >>]

\* variant: the descriptive query is preferred to the identifier
PrimaryQuery_TitleFirst(e) ==
    IF Truthy(e.title) THEN TitleAuthor(e.title, e.author) ELSE e.isbn

\* search_query = isbn if isbn else f"{title} {author}"
PrimaryQuery(e) == IF Truthy(e.isbn) THEN e.isbn ELSE TitleAuthor(e.title, e.author)

\* if not title and not author and not isbn
IsEmptyLine(e) == ~Truthy(e.title) /\ ~Truthy(e.author) /\ ~Truthy(e.isbn)

\* run(): "if not self.perform_search(...)" guards the second perform_search;
\* attempts are the calls made so far for the entry, ok the value just returned
RetryAfter(e, attempts, ok) == Len(attempts) = 1 /\ ~ok

----------------------------------------------------------------------------
(* Worker state.  pc is the position of run().  row, skipped, attempts, emits
   and pauses are the history of the entry most recently taken from self.data
   (row = 0 before the first one); stopRow, stopPc and stopTries record where
   the loop was when stop() first reached it while it was running. *)

NewWorker(d, rows) ==
    [ driver   |-> d,
      data     |-> rows,
      running  |-> TRUE,       \* self._running
      i        |-> 1,          \* index of the entry the for loop yields next
      pc       |-> "top",
      query    |-> Empty,      \* search_query
      row      |-> 0,
      skipped  |-> FALSE,
      attempts |-> << >>,      \* one record per driver.get issued for this entry
      emits    |-> 0,          \* update_result emissions for this entry
      pauses   |-> 0,          \* 15..40 s sleeps taken for this entry
      complete |-> 0,          \* search_complete emissions
      cancelLogged |-> FALSE,  \* "Search cancelled." was logged
      stopRow  |-> 0,          \* first entry not yet taken when stop() was called
      stopPc   |-> "none",     \* where run() was at that moment
      stopTries |-> 0 ]        \* and how many attempts the entry had had

W == 1..Len(workers)

Ended(w) == workers[w].pc \in {"done", "raised"}
InFlight(w) == ~Ended(w)

\* the shell after __init__
Init ==
    /\ file \in ShellFiles
    /\ data = << >>
    /\ workers = << >>
    /\ queue = << >>
    /\ table = << >>

\* the shell right after search_ebay has started its first worker on a loaded file
InitRun ==
    /\ file \in Files
    /\ data = file
    /\ workers = << NewWorker(1, file) >>
    /\ queue = << >>
    /\ table = << >>

----------------------------------------------------------------------------
(* Worker.run, one action per step of the loop *)

Set(w, rec) == workers' = [workers EXCEPT ![w] = rec]

Entry(w) == workers[w].data[workers[w].i]

AtEntry(w) == workers[w].pc = "top" /\ workers[w].i <= Len(workers[w].data)

\* the for loop is exhausted: search_complete.emit()
RunComplete(w) ==
    /\ workers[w].pc = "top"
    /\ workers[w].i > Len(workers[w].data)
    /\ Set(w, [workers[w] EXCEPT !.pc = "done", !.complete = @ + 1])
    /\ UNCHANGED <<file, data, queue, table>>

\* if not self._running: log "Search cancelled.", break, search_complete.emit()
RunCancelled(w) ==
    /\ AtEntry(w)
    /\ ~workers[w].running
    /\ Set(w, [workers[w] EXCEPT !.pc = "done", !.cancelLogged = TRUE,
                                 !.complete = @ + 1])
    /\ UNCHANGED <<file, data, queue, table>>

\* variant: the skip falls through to the sleep instead of continuing
RunSkip_ThenSleep(w) ==
    /\ AtEntry(w)
    /\ workers[w].running
    /\ IsEmptyLine(Entry(w))
    /\ Set(w, [workers[w] EXCEPT !.row = workers[w].i, !.i = @ + 1,
                                 !.skipped = TRUE, !.attempts = << >>,
                                 !.emits = 0, !.pauses = 0, !.query = Empty,
                                 !.pc = "sleep"])
    /\ UNCHANGED <<file, data, queue, table>>

\* an entry with no title, author or ISBN: log "Skipping empty line.", continue
RunSkip(w) ==
    /\ AtEntry(w)
    /\ workers[w].running
    /\ IsEmptyLine(Entry(w))
    /\ Set(w, [workers[w] EXCEPT !.row = workers[w].i, !.i = @ + 1,
                                 !.skipped = TRUE, !.attempts = << >>,
                                 !.emits = 0, !.pauses = 0, !.query = Empty])
    /\ UNCHANGED <<file, data, queue, table>>

\* variant: the entry is processed without looking at self._running
RunProcess_NoCheck(w) ==
    /\ AtEntry(w)
    /\ ~IsEmptyLine(Entry(w))
    /\ Set(w, [workers[w] EXCEPT !.row = workers[w].i, !.i = @ + 1,
                                 !.skipped = FALSE, !.attempts = << >>,
                                 !.emits = 0, !.pauses = 0,
                                 !.query = PrimaryQuery(Entry(w)),
                                 !.pc = "get"])
    /\ UNCHANGED <<file, data, queue, table>>

\* any other entry: choose the primary query and call perform_search
RunProcess(w) ==
    /\ AtEntry(w)
    /\ workers[w].running
    /\ ~IsEmptyLine(Entry(w))
    /\ Set(w, [workers[w] EXCEPT !.row = workers[w].i, !.i = @ + 1,
                                 !.skipped = FALSE, !.attempts = << >>,
                                 !.emits = 0, !.pauses = 0,
                                 !.query = PrimaryQuery(Entry(w)),
                                 !.pc = "get"])
    /\ UNCHANGED <<file, data, queue, table>>

Current(w) == workers[w].data[workers[w].row]

Attempt(q, st, n, em, ok) ==
    [query |-> q, status |-> st, nonempty |-> n, emitted |-> em, ok |-> ok]

\* perform_search: self.driver.get(url) returns
SearchGet(w) ==
    /\ workers[w].pc = "get"
    /\ Set(w, [workers[w] EXCEPT !.pc = "wait",
               !.attempts = Append(@, Attempt(workers[w].query, "loading", 0, 0, FALSE))])
    /\ UNCHANGED <<file, data, queue, table>>

\* perform_search: self.driver.get(url) raises because the page cannot be
\* loaded.  The call stands before the try block, so the exception leaves
\* perform_search and run(): nothing after it in run() is executed.
SearchGetRaises(w) ==
    /\ workers[w].pc = "get"
    /\ Set(w, [workers[w] EXCEPT !.pc = "raised",
               !.attempts = Append(@, Attempt(workers[w].query, "raised", 0, 0, FALSE))])
    /\ UNCHANGED <<file, data, queue, table>>

\* the number of metrics whose extracted text is not ""
NonEmpty(page) ==
    IF page.container
    THEN Cardinality({ k \in Metrics : GetAggregateValue(page, k) /= Empty })
    ELSE 0

\* an emitted payload, tagged with the worker and entry it was emitted for
Tag(w, result) == [worker |-> w, row |-> workers[w].row, result |-> result]

\* perform_search: the waits, the emission and the return; then run()'s choice
\* between the second perform_search and the inter-row sleep
SearchExtract(w) ==
    /\ workers[w].pc = "wait"
    /\ \E page \in Pages :
         LET e   == Current(w)
             res == PerformSearch(page, e.title, e.author, e.isbn)
             n   == Len(workers[w].attempts)
             att == [workers[w].attempts EXCEPT
                        ![n] = Attempt(@.query,
                                       IF page.container THEN "extracted" ELSE "timeout",
                                       NonEmpty(page), Len(res.emitted), res.ok)]
         IN  /\ queue' = queue \o [j \in 1..Len(res.emitted) |-> Tag(w, res.emitted[j])]
             /\ IF RetryAfter(e, att, res.ok)
                THEN Set(w, [workers[w] EXCEPT !.attempts = att,
                                !.emits = @ + Len(res.emitted),
                                !.query = TitleAuthor(e.title, e.author),
                                !.pc = "get"])
                ELSE Set(w, [workers[w] EXCEPT !.attempts = att,
                                !.emits = @ + Len(res.emitted),
                                !.pc = "sleep"])
    /\ UNCHANGED <<file, data, table>>

\* variant: the sleep is taken only after a row that emitted a result
RunSleep_OnlyAfterResult(w) ==
    /\ workers[w].pc = "sleep"
    /\ Set(w, [workers[w] EXCEPT !.pauses = IF workers[w].emits > 0 THEN @ + 1 ELSE @,
                                 !.pc = "top"])
    /\ UNCHANGED <<file, data, queue, table>>

\* variant: the sleep is abandoned once stop() has been called
RunSleep_Interruptible(w) ==
    /\ workers[w].pc = "sleep"
    /\ Set(w, [workers[w] EXCEPT !.pauses = IF workers[w].running THEN @ + 1 ELSE @,
                                 !.pc = "top"])
    /\ UNCHANGED <<file, data, queue, table>>

\* time.sleep(random.uniform(15, 40)); processEvents(); next iteration
RunSleep(w) ==
    /\ workers[w].pc = "sleep"
    /\ Set(w, [workers[w] EXCEPT !.pauses = @ + 1, !.pc = "top"])
    /\ UNCHANGED <<file, data, queue, table>>

----------------------------------------------------------------------------
(* EbaySearcher: the operator's actions and the main thread's slots *)

\* browse_file -> process_file on a well-formed spreadsheet
ProcessFile ==
    /\ data' = file
    /\ UNCHANGED <<file, workers, queue, table>>

ClearInput ==
    /\ table' = << >>
    /\ data' = << >>
    /\ UNCHANGED <<file, workers, queue>>

\* What setup_selenium() meets: a blank path input (it returns False), a
\* browser that cannot be started (webdriver.Chrome raises, and the exception
\* leaves search_ebay), or a new browser session stored in self.driver.
SetupOutcomes == {"blank", "raises", "opened"}

SetupSelenium(outcome) == outcome = "opened"

\* search_ebay: there is no test of self.worker; every worker is handed the
\* session setup_selenium has just opened for it, numbered here by the worker
\* it goes to
SearchEbay ==
    /\ Len(workers) < MaxWorkers
    /\ \E outcome \in SetupOutcomes :
         IF data = << >> \/ ~SetupSelenium(outcome)
         THEN UNCHANGED workers
         ELSE workers' = Append(workers, NewWorker(Len(workers) + 1, data))
    /\ UNCHANGED <<file, data, queue, table>>

\* Worker.stop()
Stop(wk) ==
    LET first == wk.stopRow = 0 /\ wk.pc \notin {"done", "raised"}
    IN  [wk EXCEPT !.running = FALSE,
                   !.stopRow = IF first THEN wk.i ELSE @,
                   !.stopPc  = IF first THEN wk.pc ELSE @,
                   !.stopTries = IF first THEN Len(wk.attempts) ELSE @]

\* variant: the flag is shared, so Cancel reaches every worker
CancelSearch_All ==
    /\ workers' = [w \in W |-> Stop(workers[w])]
    /\ UNCHANGED <<file, data, queue, table>>

CancelSearch ==
    /\ IF workers /= << >>
       THEN Set(Len(workers), Stop(workers[Len(workers)]))
       ELSE UNCHANGED workers
    /\ UNCHANGED <<file, data, queue, table>>

\* variant: insertRow(0)
UpdateTable_Prepend ==
    /\ queue /= << >>
    /\ table' = <<Head(queue)>> \o table
    /\ queue' = Tail(queue)
    /\ UNCHANGED <<file, data, workers>>

\* the queued update_result signal reaches update_table: insertRow(rowCount())
UpdateTable ==
    /\ queue /= << >>
    /\ table' = Append(table, Head(queue))
    /\ queue' = Tail(queue)
    /\ UNCHANGED <<file, data, workers>>

\* the whole application, from construction
Next ==
    \/ ProcessFile
    \/ ClearInput
    \/ SearchEbay
    \/ CancelSearch
    \/ UpdateTable
    \/ \E w \in W : RunComplete(w)
    \/ \E w \in W : RunCancelled(w)
    \/ \E w \in W : RunSkip(w)
    \/ \E w \in W : RunProcess(w)
    \/ \E w \in W : SearchGet(w)
    \/ \E w \in W : SearchGetRaises(w)
    \/ \E w \in W : SearchExtract(w)
    \/ \E w \in W : RunSleep(w)

Spec == Init /\ [][Next]_vars

\* one run of the search loop, with the operator free to cancel and clear
NextRun ==
    \/ ClearInput
    \/ CancelSearch
    \/ UpdateTable
    \/ \E w \in W : RunComplete(w)
    \/ \E w \in W : RunCancelled(w)
    \/ \E w \in W : RunSkip(w)
    \/ \E w \in W : RunProcess(w)
    \/ \E w \in W : SearchGet(w)
    \/ \E w \in W : SearchGetRaises(w)
    \/ \E w \in W : SearchExtract(w)
    \/ \E w \in W : RunSleep(w)

SpecRun == InitRun /\ [][NextRun]_vars

----------------------------------------------------------------------------
(* Vocabulary of the properties *)

\* the entry has no title, no author and no identifier
AllEmpty(e) == e.title = << >> /\ e.author = << >> /\ e.isbn = << >>

\* the title+author concatenation of an entry
Concatenation(e) == e.title \o <<" ">> \o e.author

\* the worker has taken an entry and has processed it (not skipped it)
Processing(w) == workers[w].row >= 1 /\ ~workers[w].skipped

\* every perform_search call for the entry has returned
AttemptsOver(w) == Processing(w) /\ workers[w].pc \in {"sleep", "top", "done"}

\* the loop is past the entry: at the head of the loop again, or finished
PastEntry(w) == workers[w].row >= 1 /\ workers[w].pc \in {"top", "done"}

\* the attempt found no non-empty field: container timeout, or four empty texts
NoFields(a) == a.status \in {"timeout", "extracted"} /\ a.nonempty = 0

\* payloads the shell has received or will receive, in arrival order
Arrivals == table \o queue

----------------------------------------------------------------------------
(* C1: if cancellation is requested before the loop begins considering row N,
   no page load is issued for row N or a later row, and the run that the
   cancellation stops emits search_complete exactly once. *)
C1_CancelStopsLoop ==
    \A w \in W :
        /\ workers[w].complete <= 1
        /\ workers[w].stopRow /= 0 =>
              /\ workers[w].row < workers[w].stopRow
              /\ workers[w].i <= workers[w].stopRow
              /\ workers[w].pc = "done" => workers[w].complete = 1
        /\ workers[w].cancelLogged => workers[w].pc = "done" /\ workers[w].complete = 1

C1_Witness ==
    \E w \in W :
        /\ workers[w].stopRow = 2
        /\ workers[w].stopPc = "top"
        /\ Len(workers[w].data) = 2
        /\ workers[w].row = 1
        /\ workers[w].attempts /= << >>
        /\ workers[w].cancelLogged
        /\ workers[w].complete = 1

(* C2: for a row with a non-empty identifier the first attempt queries the
   identifier, and a second attempt, querying title+author, is made if and
   only if the identifier attempt found no non-empty field. *)
C2_IdentifierFirst ==
    \A w \in W :
        (Processing(w) /\ Current(w).isbn /= << >>) =>
            LET a == workers[w].attempts
            IN  /\ workers[w].pc = "get" /\ a = << >> => workers[w].query = Current(w).isbn
                /\ a /= << >> => a[1].query = Current(w).isbn
                /\ Len(a) >= 2 => NoFields(a[1]) /\ a[2].query = Concatenation(Current(w))
                /\ (workers[w].pc = "get" /\ a /= << >>) =>
                       NoFields(a[1]) /\ workers[w].query = Concatenation(Current(w))
                /\ AttemptsOver(w) => (Len(a) = 2 <=> NoFields(a[1]))

C2_Witness ==
    \E w \in W :
        /\ AttemptsOver(w)
        /\ Current(w).isbn /= << >>
        /\ Len(workers[w].attempts) = 2
        /\ workers[w].attempts[1].status = "extracted"
        /\ workers[w].attempts[2].query = <<"T", " ", "A">>

(* C3: an extraction attempt emits a PriceSummary if and only if at least one
   of the four fields is non-empty; it then emits exactly one, with empty
   strings for the unfound fields, and returns success; an attempt whose
   container times out or whose fields are all empty emits nothing and
   returns failure. *)
C3_EmitIffField ==
    /\ \A w \in W : \A n \in 1..Len(workers[w].attempts) :
          LET a == workers[w].attempts[n]
          IN  a.status \in {"timeout", "extracted"} =>
                 /\ a.emitted = (IF a.nonempty >= 1 THEN 1 ELSE 0)
                 /\ a.ok <=> a.nonempty >= 1
                 /\ a.status = "timeout" => a.nonempty = 0
    /\ \A n \in 1..Len(Arrivals) :
          /\ Len(Arrivals[n].result) = 3 + NumMetrics
          /\ \E k \in Metrics : Arrivals[n].result[3 + k] /= << >>
          /\ LET x == Arrivals[n]
                 a == workers[x.worker].attempts
             IN  \A m \in 1..Len(a) :
                    (x.row = workers[x.worker].row /\ a[m].emitted = 1) =>
                        Cardinality({ k \in Metrics : x.result[3 + k] /= << >> })
                            = a[m].nonempty

C3_Witness ==
    /\ \E w \in W : \E n \in 1..Len(workers[w].attempts) :
          workers[w].attempts[n].nonempty = 1 /\ workers[w].attempts[n].ok
    /\ \E n \in 1..Len(table) :
          /\ table[n].result[4] = <<"$">>
          /\ \A k \in 2..NumMetrics : table[n].result[3 + k] = << >>

(* C4: a row whose title, author and identifier are all empty gets no
   extraction attempt, no PriceSummary and no pause. *)
C4_EmptyRowSkipped ==
    /\ \A w \in W :
          (workers[w].row >= 1 /\ AllEmpty(Current(w))) =>
              /\ workers[w].attempts = << >>
              /\ workers[w].emits = 0
              /\ workers[w].pauses = 0
              /\ workers[w].pc \in {"top", "done"}
    /\ \A n \in 1..Len(Arrivals) :
          ~AllEmpty(workers[Arrivals[n].worker].data[Arrivals[n].row])

C4_Witness ==
    \E w \in W :
        /\ workers[w].row = 2
        /\ AllEmpty(Current(w))
        /\ workers[w].pc = "done"
        /\ workers[w].running

(* C5: at most one search loop is in flight, whatever the operator does. *)
C5_OneLoopInFlight == Cardinality({ w \in W : InFlight(w) }) <= 1

(* C6: without cancellation the loop considers every row and then emits
   search_complete, whatever failure a row meets. *)
C6_NoAbort ==
    \A w \in W :
        (Ended(w) /\ workers[w].running) =>
            /\ workers[w].i = Len(workers[w].data) + 1
            /\ workers[w].complete = 1

(* C7: a second attempt is made only after a failed attempt that queried the
   identifier; a row with an empty identifier gets exactly one attempt, and no
   row gets more than two. *)
C7_FallbackOnlyAfterIdentifier ==
    \A w \in W :
        Processing(w) =>
            LET a == workers[w].attempts
            IN  /\ Len(a) <= 2
                /\ Len(a) = 2 => Current(w).isbn /= << >> /\ ~a[1].ok
                /\ (AttemptsOver(w) /\ Current(w).isbn = << >>) => Len(a) = 1

(* C8: the loop leaves a processed row only after exactly one inter-row pause,
   taken after the row's last attempt, whether or not the row emitted a
   result; a skipped row gets no pause. *)
C8_OnePausePerRow ==
    \A w \in W :
        workers[w].row >= 1 =>
            IF workers[w].skipped
            THEN workers[w].pauses = 0
            ELSE /\ PastEntry(w) => workers[w].pauses = 1
                 /\ ~PastEntry(w) => workers[w].pauses = 0

C8_Witness ==
    \E w \in W :
        /\ PastEntry(w)
        /\ Processing(w)
        /\ workers[w].emits = 0
        /\ workers[w].pauses = 1
        /\ workers[w].running

(* C9: cancellation requested while a row is being processed changes nothing
   in that row: the fallback after a failed identifier attempt, the emission
   and the pause still happen, and the loop stops only at the check at the top
   of the next row. *)
C9_CancelOnlyAtRowBoundary ==
    \A w \in W :
        /\ (workers[w].stopRow /= 0 /\ workers[w].stopPc /= "top") =>
              LET a == workers[w].attempts
              IN  /\ workers[w].row = workers[w].stopRow - 1
                  /\ (AttemptsOver(w) /\ Current(w).isbn /= << >>) =>
                         (Len(a) = 2 <=> NoFields(a[1]))
                  /\ AttemptsOver(w) =>
                         workers[w].emits = (IF a[Len(a)].nonempty >= 1 THEN 1 ELSE 0)
                  /\ PastEntry(w) => workers[w].pauses = 1
                  /\ (workers[w].pc = "done" /\ workers[w].stopRow <= Len(workers[w].data)) =>
                         workers[w].cancelLogged
        /\ workers[w].cancelLogged =>
              /\ workers[w].pc = "done"
              /\ workers[w].i = workers[w].stopRow
              /\ workers[w].row < workers[w].stopRow

C9_Witness ==
    \E w \in W :
        /\ workers[w].stopPc = "get"
        /\ workers[w].stopTries = 0
        /\ Len(workers[w].attempts) = 2
        /\ workers[w].emits = 1
        /\ workers[w].pauses = 1
        /\ workers[w].cancelLogged

(* C10: within one run each row produces at most one PriceSummary, a row whose
   primary attempt emitted never runs the fallback, each PriceSummary carries
   the title, author and identifier of its row, and the shell receives them in
   the order of their rows. *)
C10_OneSummaryPerRowInOrder ==
    /\ \A w \in W :
          /\ workers[w].emits <= 1
          /\ Len(workers[w].attempts) >= 2 => workers[w].attempts[1].emitted = 0
    /\ \A n \in 1..Len(Arrivals) :
          LET x == Arrivals[n]
              e == workers[x.worker].data[x.row]
          IN  /\ x.result[1] = e.title
              /\ x.result[2] = e.author
              /\ x.result[3] = e.isbn
    /\ \A m, n \in 1..Len(Arrivals) :
          (m < n /\ Arrivals[m].worker = Arrivals[n].worker) =>
              Arrivals[m].row < Arrivals[n].row

C10_Witness ==
    /\ Len(table) = 2
    /\ table[1].worker = table[2].worker
    /\ table[1].row = 1
    /\ table[2].row = 2
    /\ table[1].result[3] /= table[2].result[3]

(* C11: the cancellation flag belongs to one worker and one run.  A worker
   starts with its flag clear whatever was cancelled before, a step changes
   the flag of no worker but the most recently started one, and so a loop is
   stopped by cancellation only if Cancel was pressed during its own run. *)
C11_FlagPerWorker ==
    [][ /\ \A w \in W :
              workers'[w].running /= workers[w].running =>
                  /\ w = Len(workers)
                  /\ Len(workers') = Len(workers)
                  /\ ~workers'[w].running
        /\ Len(workers') > Len(workers) =>
              /\ workers'[Len(workers')].running
              /\ workers'[Len(workers')].stopRow = 0
        /\ \A w \in W :
              (~workers[w].cancelLogged /\ workers'[w].cancelLogged) =>
                  workers[w].stopRow /= 0
      ]_vars

C11_Witness ==
    /\ Len(workers) = 2
    /\ workers[1].running
    /\ workers[1].pc = "wait"
    /\ ~workers[2].running
    /\ workers[2].cancelLogged

====
